---- MODULE Spec2Model ----
(***************************************************************************)
(* Model of textarena/agents/basic_agents.py: the eight agent classes,     *)
(* their constructors, their __call__ methods and the retry loop of the    *)
(* four retrying agents.                                                   *)
(*                                                                         *)
(* A Python str is a sequence of one-character strings.  An exception is   *)
(* a record [type, msg].  A backend (the provider SDK's completion call,   *)
(* the local pipeline) is opaque: each invocation either yields a raw text *)
(* or raises, chosen nondeterministically.                                 *)
(***************************************************************************)
EXTENDS Integers, Sequences, FiniteSets, TLC

VARIABLES
    environ,        \* os.environ: the set of environment variables that are set
    self,           \* the agent object (NoObject before / without construction)
    ctor_cls,       \* the class whose constructor the caller evaluated
    ctor_exc,       \* the exception the constructor raised (NoException if none)
    pc,             \* position of the caller / the running method
    entry,          \* the method the caller invoked: "__call__" or "_retry_request"
    observation,    \* argument of the running call
    retries,        \* _retry_request's parameter
    delay,          \* _retry_request's parameter
    attempt,        \* loop variable of _retry_request
    last_exception, \* local of _retry_request
    in_flight,      \* number of backend requests issued and not yet answered
    calls,          \* backend invocations made by the running call
    events,         \* backend invocations and time.sleep pauses of the running call
    outcomes,       \* what the backend answered to each invocation of the running call
    result,         \* what the running call gave its caller: return value or exception
    stdout,         \* what the running call printed
    prompts,        \* operator prompts (input()) issued by the running call
    stdin,          \* what the operator typed in answer to the prompt
    ncalls          \* calls made on the agent so far

vars == <<environ, self, ctor_cls, ctor_exc, pc, entry, observation, retries, delay, attempt,
          last_exception, in_flight, calls, events, outcomes, result, stdout,
          prompts, stdin, ncalls>>

callvars == <<entry, observation, retries, delay, attempt, last_exception,
              in_flight, calls, events, outcomes, result, stdout, prompts, stdin, ncalls>>

----------------------------------------------------------------------------
(* Bounds *)

MaxLen == 3         \* longest raw backend text / operator line
MaxRetries == 3     \* largest attempt limit passed to _retry_request directly
MaxDelay == 1       \* largest non-default delay passed to _retry_request directly
MaxCalls == 2       \* calls made on one agent

----------------------------------------------------------------------------
(* Python strings *)

Chars == {"d", " "}
Whitespace == {" ", "\n", "\t"}

Strings == UNION {[1..k -> Chars] : k \in 0..MaxLen}

RECURSIVE LStrip(_)
LStrip(s) == IF s = <<>> THEN s
             ELSE IF Head(s) \in Whitespace THEN LStrip(Tail(s)) ELSE s

RECURSIVE RStrip(_)
RStrip(s) == IF s = <<>> THEN s
             ELSE IF s[Len(s)] \in Whitespace THEN RStrip(SubSeq(s, 1, Len(s) - 1)) ELSE s

\* str.strip(): drops the leading and the trailing whitespace characters
str_strip(s) == RStrip(LStrip(s))

\* builtin input(): reads one line from stdin and drops its trailing newline
builtin_input(text) ==
    IF text # <<>> /\ text[Len(text)] = "\n" THEN SubSeq(text, 1, Len(text) - 1)
    ELSE text

STANDARD_GAME_PROMPT ==
    "You are a competitive game player. Make sure you read the game instructions carefully, and always follow the required format."
SystemPrompts == {STANDARD_GAME_PROMPT, "custom"}

----------------------------------------------------------------------------
(* Exceptions, observations, backend answers *)

NoException == [type |-> "NoException", msg |-> <<>>]
PyNone == [type |-> "None", msg |-> <<>>]

\* failures of a backend invocation, by their str(e)
ErrMsgs == {<<"r">>, <<>>}
BackendErrors == {[type |-> "BackendError", msg |-> m] : m \in ErrMsgs}

ObservationValueError ==
    [type |-> "ValueError", msg |-> <<"Observation must be a string.">>]
StrConcatTypeError ==
    [type |-> "TypeError", msg |-> <<"can only concatenate str to str">>]
RaiseNoneTypeError ==
    [type |-> "TypeError", msg |-> <<"exceptions must derive from BaseException">>]

StrObservations == {[type |-> "str", text |-> <<"X">>]}
NonStrObservations == {[type |-> "int", text |-> <<>>]}
Observations == StrObservations \cup NonStrObservations
NoObservation == [type |-> "none", text |-> <<>>]

isinstance_str(o) == o.type = "str"

Ok(raw) == [ok |-> TRUE, raw |-> raw, exc |-> NoException]
Err(e) == [ok |-> FALSE, raw |-> <<>>, exc |-> e]

NoResult == [kind |-> "none", value |-> <<>>, exc |-> NoException]
Returned(s) == [kind |-> "return", value |-> s, exc |-> NoException]
Raised(e) == [kind |-> "raise", value |-> <<>>, exc |-> e]

Invoke(k) == [ev |-> "invoke", arg |-> k]
Sleep(d) == [ev |-> "sleep", arg |-> d]

----------------------------------------------------------------------------
(* Agent classes and their constructors *)

RetryingAgents == {"OpenRouterAgent", "GeminiAgent", "OpenAIAgent", "AnthropicAgent"}
SingleShotAgents == {"HFLocalAgent", "CerebrasAgent", "AWSBedrockAgent"}
Agents == {"HumanAgent"} \cup RetryingAgents \cup SingleShotAgents

\* the credential each provider needs
CredentialVar == [a \in Agents \ {"HumanAgent", "HFLocalAgent"} |->
    CASE a = "OpenRouterAgent" -> "OPENROUTER_API_KEY"
      [] a = "GeminiAgent"     -> "GEMINI_API_KEY"
      [] a = "OpenAIAgent"     -> "OPENAI_API_KEY"
      [] a = "CerebrasAgent"   -> "CEREBRAS_API_KEY"
      [] a = "AnthropicAgent"  -> "ANTHROPIC_API_KEY"
      [] a = "AWSBedrockAgent" -> "AWS_ACCESS_KEY_ID"]
EnvVars == {CredentialVar[a] : a \in DOMAIN CredentialVar}

NoKey == "None"
os_getenv(env, name) == IF name \in env THEN "key" ELSE NoKey

NoObject == [cls |-> "none", model_name |-> "", system_prompt |-> "",
             verbose |-> FALSE, client |-> "none", api_key |-> NoKey]

Object(cls, model_name, system_prompt, verbose, client, api_key) ==
    [cls |-> cls, model_name |-> model_name, system_prompt |-> system_prompt,
     verbose |-> verbose, client |-> client, api_key |-> api_key]

Constructed(obj) == [cls |-> obj.cls, raised |-> NoException, obj |-> obj]
CtorRaises(cls, type) ==
    [cls |-> cls, raised |-> [type |-> type, msg |-> <<>>], obj |-> NoObject]

HumanAgent_init == Constructed(Object("HumanAgent", "", "", FALSE, "none", NoKey))

OpenRouterAgent_init(model_name, system_prompt, verbose, env, installed) ==
    IF ~installed THEN CtorRaises("OpenRouterAgent", "ImportError")
    ELSE LET api_key == os_getenv(env, "OPENROUTER_API_KEY") IN
         IF api_key = NoKey THEN CtorRaises("OpenRouterAgent", "ValueError")
         ELSE Constructed(Object("OpenRouterAgent", model_name, system_prompt, verbose,
                                 "OpenAI", api_key))

GeminiAgent_init(model_name, system_prompt, verbose, env, installed) ==
    IF ~installed THEN CtorRaises("GeminiAgent", "ImportError")
    ELSE LET api_key == os_getenv(env, "GEMINI_API_KEY") IN
         IF api_key = NoKey THEN CtorRaises("GeminiAgent", "ValueError")
         ELSE Constructed(Object("GeminiAgent", model_name, system_prompt, verbose,
                                 "GenerativeModel", api_key))

\* api_key is the constructor's argument: NoKey when the caller passes none
OpenAIAgent_init(model_name, system_prompt, verbose, api_key, env, installed) ==
    IF ~installed THEN CtorRaises("OpenAIAgent", "ImportError")
    ELSE LET key == IF api_key = NoKey THEN os_getenv(env, "OPENAI_API_KEY") ELSE api_key IN
         IF key = NoKey THEN CtorRaises("OpenAIAgent", "ValueError")
         ELSE Constructed(Object("OpenAIAgent", model_name, system_prompt, verbose,
                                 "OpenAI", key))

\* loaded: whether from_pretrained and pipeline() succeed; hf_kwargs_given:
\* whether the caller passes hf_kwargs (the default None cannot be **-unpacked)
HFLocalAgent_init(model_name, hf_kwargs_given, installed, loaded) ==
    IF ~installed THEN CtorRaises("HFLocalAgent", "ImportError")
    ELSE IF ~loaded THEN CtorRaises("HFLocalAgent", "OSError")
    ELSE IF ~hf_kwargs_given THEN CtorRaises("HFLocalAgent", "TypeError")
    ELSE Constructed(Object("HFLocalAgent", model_name, STANDARD_GAME_PROMPT, FALSE,
                            "pipeline", NoKey))

\* sdk_ok: whether the provider SDK's client constructor returns a client; the
\* agent itself does not look at the key it read
CerebrasAgent_init(model_name, system_prompt, env, installed, sdk_ok) ==
    IF ~installed THEN CtorRaises("CerebrasAgent", "ImportError")
    ELSE LET api_key == os_getenv(env, "CEREBRAS_API_KEY") IN
         IF ~sdk_ok THEN CtorRaises("CerebrasAgent", "SDKError")
         ELSE Constructed(Object("CerebrasAgent", model_name,
                                 IF system_prompt = NoKey THEN STANDARD_GAME_PROMPT
                                 ELSE system_prompt,
                                 FALSE, "Cerebras", api_key))

\* the agent reads no environment variable; boto3 resolves credentials itself
AWSBedrockAgent_init(model_id, system_prompt, verbose, installed, sdk_ok) ==
    IF ~installed THEN CtorRaises("AWSBedrockAgent", "ImportError")
    ELSE IF ~sdk_ok THEN CtorRaises("AWSBedrockAgent", "SDKError")
    ELSE Constructed(Object("AWSBedrockAgent", model_id, system_prompt, verbose,
                            "bedrock-runtime", NoKey))

\* the agent reads no environment variable; anthropic.Anthropic() resolves the key itself
AnthropicAgent_init(model_name, system_prompt, verbose, installed, sdk_ok) ==
    IF ~installed THEN CtorRaises("AnthropicAgent", "ImportError")
    ELSE IF ~sdk_ok THEN CtorRaises("AnthropicAgent", "SDKError")
    ELSE Constructed(Object("AnthropicAgent", model_name, system_prompt, verbose,
                            "Anthropic", NoKey))

----------------------------------------------------------------------------
(* The outcomes of evaluating Cls(...) in environment env, over the arguments *)

Ctor_HumanAgent == {HumanAgent_init}

Ctor_OpenRouterAgent(env) ==
    {OpenRouterAgent_init("m", sp, v, env, installed) :
        sp \in SystemPrompts, v \in BOOLEAN, installed \in BOOLEAN}

Ctor_GeminiAgent(env) ==
    {GeminiAgent_init("m", sp, v, env, installed) :
        sp \in SystemPrompts, v \in BOOLEAN, installed \in BOOLEAN}

Ctor_OpenAIAgent(env) ==
    {OpenAIAgent_init("m", sp, v, k, env, installed) :
        sp \in SystemPrompts, v \in BOOLEAN, k \in {NoKey, "key"}, installed \in BOOLEAN}

Ctor_HFLocalAgent ==
    {HFLocalAgent_init("m", given, installed, loaded) :
        given \in BOOLEAN, installed \in BOOLEAN, loaded \in BOOLEAN}

Ctor_CerebrasAgent(env) ==
    {CerebrasAgent_init("m", sp, env, installed, sdk_ok) :
        sp \in SystemPrompts \cup {NoKey}, installed \in BOOLEAN, sdk_ok \in BOOLEAN}

Ctor_AWSBedrockAgent ==
    {AWSBedrockAgent_init("m", sp, v, installed, sdk_ok) :
        sp \in SystemPrompts, v \in BOOLEAN, installed \in BOOLEAN, sdk_ok \in BOOLEAN}

Ctor_AnthropicAgent ==
    {AnthropicAgent_init("m", sp, v, installed, sdk_ok) :
        sp \in SystemPrompts, v \in BOOLEAN, installed \in BOOLEAN, sdk_ok \in BOOLEAN}

----------------------------------------------------------------------------
(* Construction as a state machine: the caller evaluates Cls(...) *)

IdleCall ==
    /\ entry = "none"
    /\ observation = NoObservation
    /\ retries = 0
    /\ delay = 0
    /\ attempt = 0
    /\ last_exception = PyNone
    /\ in_flight = 0
    /\ calls = 0
    /\ events = <<>>
    /\ outcomes = <<>>
    /\ result = NoResult
    /\ stdout = <<>>
    /\ prompts = 0
    /\ stdin = <<>>
    /\ ncalls = 0

InitNew ==
    /\ environ \in SUBSET EnvVars
    /\ self = NoObject
    /\ ctor_cls = "none"
    /\ ctor_exc = NoException
    /\ pc = "new"
    /\ IdleCall

\* the caller binds the constructor's outcome
Construct(c) ==
    /\ pc = "new"
    /\ self' = c.obj
    /\ ctor_cls' = c.cls
    /\ ctor_exc' = c.raised
    /\ pc' = IF c.raised = NoException THEN "ready" ELSE "ctor_failed"
    /\ UNCHANGED <<environ, callvars>>

New_HumanAgent == \E c \in Ctor_HumanAgent : Construct(c)
New_OpenRouterAgent == \E c \in Ctor_OpenRouterAgent(environ) : Construct(c)
New_GeminiAgent == \E c \in Ctor_GeminiAgent(environ) : Construct(c)
New_OpenAIAgent == \E c \in Ctor_OpenAIAgent(environ) : Construct(c)
New_HFLocalAgent == \E c \in Ctor_HFLocalAgent : Construct(c)
New_CerebrasAgent == \E c \in Ctor_CerebrasAgent(environ) : Construct(c)
New_AWSBedrockAgent == \E c \in Ctor_AWSBedrockAgent : Construct(c)
New_AnthropicAgent == \E c \in Ctor_AnthropicAgent : Construct(c)

NextNew ==
    \/ New_AWSBedrockAgent
    \/ New_AnthropicAgent
    \/ New_CerebrasAgent
    \/ New_HumanAgent
    \/ New_OpenRouterAgent
    \/ New_GeminiAgent
    \/ New_OpenAIAgent
    \/ New_HFLocalAgent

SpecNew == InitNew /\ [][NextNew]_vars

----------------------------------------------------------------------------
(* Calls on a constructed agent *)

DefaultRetries == 3
DefaultDelay == 5

RetriesArgs == {-1, 0} \cup (1..MaxRetries)
DelayArgs == (1..MaxDelay) \cup {DefaultDelay}

\* the agents a program can hold when every credential is set
Init ==
    /\ environ = EnvVars
    /\ \E c \in Ctor_HumanAgent \cup Ctor_OpenRouterAgent(environ)
                \cup Ctor_GeminiAgent(environ) \cup Ctor_OpenAIAgent(environ)
                \cup Ctor_HFLocalAgent \cup Ctor_CerebrasAgent(environ)
                \cup Ctor_AWSBedrockAgent \cup Ctor_AnthropicAgent :
            /\ c.raised = NoException
            /\ self = c.obj
            /\ ctor_cls = c.cls
    /\ ctor_exc = NoException
    /\ pc = "ready"
    /\ IdleCall

\* the caller invokes method e of the agent with argument o: a fresh activation
BeginCall(cls, o, e) ==
    /\ pc \in {"ready", "done"}
    /\ self.cls = cls
    /\ ncalls < MaxCalls
    /\ ncalls' = ncalls + 1
    /\ entry' = e
    /\ observation' = o
    /\ outcomes' = <<>>
    /\ stdin' = <<>>
    /\ UNCHANGED <<environ, self, ctor_cls, ctor_exc>>

\* the body of _retry_request starts: last_exception = None, nothing done yet
EnterRetryRequest(n, d) ==
    /\ retries' = n
    /\ delay' = d
    /\ attempt' = 0
    /\ last_exception' = PyNone
    /\ in_flight' = 0
    /\ calls' = 0
    /\ events' = <<>>
    /\ result' = NoResult
    /\ stdout' = <<>>
    /\ prompts' = 0
    /\ pc' = "loop"

\* __call__ raises ValueError for a non-string observation
RejectObservation ==
    /\ retries' = 0
    /\ delay' = 0
    /\ attempt' = 0
    /\ last_exception' = PyNone
    /\ in_flight' = 0
    /\ calls' = 0
    /\ events' = <<>>
    /\ result' = Raised(ObservationValueError)
    /\ stdout' = <<>>
    /\ prompts' = 0
    /\ pc' = "done"

\* a single-shot agent issues its one backend request
IssueSingleRequest ==
    /\ retries' = 0
    /\ delay' = 0
    /\ attempt' = 0
    /\ last_exception' = PyNone
    /\ in_flight' = 1
    /\ calls' = 1
    /\ events' = <<Invoke(1)>>
    /\ result' = NoResult
    /\ stdout' = <<>>
    /\ prompts' = 0
    /\ pc' = "request"

\* the method returns value v / the call ends with its answer
Finish(r) ==
    /\ result' = r
    /\ pc' = "done"

VerbosePrint(out) == IF self.verbose THEN Append(out, "Observation/Response") ELSE out

----------------------------------------------------------------------------
(* OpenRouterAgent *)

\* OpenRouterAgent_make_request without the .strip()
OpenRouterAgent_make_request_unstripped(raw) == raw

\* the value _make_request returns for the backend's raw text
OpenRouterAgent_make_request(raw) == str_strip(raw)

OpenRouterAgent_call ==
    \E o \in Observations :
        /\ BeginCall("OpenRouterAgent", o, "__call__")
        /\ IF ~isinstance_str(o) THEN RejectObservation
           ELSE EnterRetryRequest(DefaultRetries, DefaultDelay)

\* _retry_request invoked with explicit retries and delay
OpenRouterAgent_retry_request ==
    \E o \in StrObservations, n \in RetriesArgs, d \in DelayArgs :
        /\ BeginCall("OpenRouterAgent", o, "_retry_request")
        /\ EnterRetryRequest(n, d)

\* OpenRouterAgent_for as a loop that retries until the request succeeds
OpenRouterAgent_for_until_success ==
    /\ pc = "loop"
    /\ self.cls = "OpenRouterAgent"
    /\ attempt' = attempt + 1
    /\ in_flight' = in_flight + 1
    /\ calls' = calls + 1
    /\ events' = Append(events, Invoke(attempt + 1))
    /\ pc' = "request"
    /\ UNCHANGED <<environ, self, ctor_cls, ctor_exc, entry, observation, retries, delay,
                   last_exception, outcomes, result, stdout, prompts, stdin, ncalls>>

\* for attempt in range(1, retries + 1): the next attempt issues its request;
\* the exhausted loop falls through to raise last_exception
OpenRouterAgent_for ==
    /\ pc = "loop"
    /\ self.cls = "OpenRouterAgent"
    /\ IF attempt < retries
       THEN /\ attempt' = attempt + 1
            /\ in_flight' = in_flight + 1
            /\ calls' = calls + 1
            /\ events' = Append(events, Invoke(attempt + 1))
            /\ pc' = "request"
            /\ UNCHANGED result
       ELSE /\ Finish(Raised(IF last_exception = PyNone THEN RaiseNoneTypeError
                             ELSE last_exception))
            /\ UNCHANGED <<attempt, in_flight, calls, events>>
    /\ UNCHANGED <<environ, self, ctor_cls, ctor_exc, entry, observation, retries, delay,
                   last_exception, outcomes, stdout, prompts, stdin, ncalls>>

\* the request succeeds: the try body returns the response
OpenRouterAgent_return ==
    \E raw \in Strings :
        /\ pc = "request"
        /\ self.cls = "OpenRouterAgent"
        /\ in_flight' = in_flight - 1
        /\ outcomes' = Append(outcomes, Ok(raw))
        /\ stdout' = VerbosePrint(stdout)
        /\ Finish(Returned(OpenRouterAgent_make_request(raw)))
        /\ UNCHANGED <<environ, self, ctor_cls, ctor_exc, entry, observation, retries, delay,
                       attempt, last_exception, calls, events, prompts, stdin, ncalls>>

\* OpenRouterAgent_except with a delay that grows with the attempt number
OpenRouterAgent_except_backs_off ==
    \E e \in BackendErrors :
        /\ pc = "request"
        /\ self.cls = "OpenRouterAgent"
        /\ in_flight' = in_flight - 1
        /\ outcomes' = Append(outcomes, Err(e))
        /\ last_exception' = e
        /\ stdout' = Append(stdout, "Attempt failed")
        /\ IF attempt < retries
           THEN /\ events' = Append(events, Sleep(delay * attempt))
                /\ pc' = "sleep"
           ELSE /\ pc' = "loop"
                /\ UNCHANGED events
        /\ UNCHANGED <<environ, self, ctor_cls, ctor_exc, entry, observation, retries, delay,
                       attempt, calls, result, prompts, stdin, ncalls>>

\* the request fails: except Exception as e
OpenRouterAgent_except ==
    \E e \in BackendErrors :
        /\ pc = "request"
        /\ self.cls = "OpenRouterAgent"
        /\ in_flight' = in_flight - 1
        /\ outcomes' = Append(outcomes, Err(e))
        /\ last_exception' = e
        /\ stdout' = Append(stdout, "Attempt failed")
        /\ IF attempt < retries
           THEN /\ events' = Append(events, Sleep(delay))
                /\ pc' = "sleep"
           ELSE /\ pc' = "loop"
                /\ UNCHANGED events
        /\ UNCHANGED <<environ, self, ctor_cls, ctor_exc, entry, observation, retries, delay,
                       attempt, calls, result, prompts, stdin, ncalls>>

\* time.sleep(delay) returns
OpenRouterAgent_sleep ==
    /\ pc = "sleep"
    /\ self.cls = "OpenRouterAgent"
    /\ pc' = "loop"
    /\ UNCHANGED <<environ, self, ctor_cls, ctor_exc, callvars>>

----------------------------------------------------------------------------
(* GeminiAgent *)

\* GeminiAgent_make_request returning the untrimmed text when it has printed it
GeminiAgent_make_request_verbose_raw(raw) == IF self.verbose THEN raw ELSE str_strip(raw)

\* the value _make_request returns for the backend's raw text
GeminiAgent_make_request(raw) == str_strip(raw)

\* GeminiAgent_call without the isinstance check
GeminiAgent_call_unchecked ==
    \E o \in Observations :
        /\ BeginCall("GeminiAgent", o, "__call__")
        /\ EnterRetryRequest(DefaultRetries, DefaultDelay)

GeminiAgent_call ==
    \E o \in Observations :
        /\ BeginCall("GeminiAgent", o, "__call__")
        /\ IF ~isinstance_str(o) THEN RejectObservation
           ELSE EnterRetryRequest(DefaultRetries, DefaultDelay)

\* _retry_request invoked with explicit retries and delay
GeminiAgent_retry_request ==
    \E o \in StrObservations, n \in RetriesArgs, d \in DelayArgs :
        /\ BeginCall("GeminiAgent", o, "_retry_request")
        /\ EnterRetryRequest(n, d)

\* for attempt in range(1, retries + 1): the next attempt issues its request;
\* the exhausted loop falls through to raise last_exception
GeminiAgent_for ==
    /\ pc = "loop"
    /\ self.cls = "GeminiAgent"
    /\ IF attempt < retries
       THEN /\ attempt' = attempt + 1
            /\ in_flight' = in_flight + 1
            /\ calls' = calls + 1
            /\ events' = Append(events, Invoke(attempt + 1))
            /\ pc' = "request"
            /\ UNCHANGED result
       ELSE /\ Finish(Raised(IF last_exception = PyNone THEN RaiseNoneTypeError
                             ELSE last_exception))
            /\ UNCHANGED <<attempt, in_flight, calls, events>>
    /\ UNCHANGED <<environ, self, ctor_cls, ctor_exc, entry, observation, retries, delay,
                   last_exception, outcomes, stdout, prompts, stdin, ncalls>>

\* GeminiAgent_return with the return statement lost: the loop goes on
GeminiAgent_return_keeps_looping ==
    \E raw \in Strings :
        /\ pc = "request"
        /\ self.cls = "GeminiAgent"
        /\ in_flight' = in_flight - 1
        /\ outcomes' = Append(outcomes, Ok(raw))
        /\ stdout' = VerbosePrint(stdout)
        /\ pc' = "loop"
        /\ UNCHANGED <<environ, self, ctor_cls, ctor_exc, entry, observation, retries, delay,
                       attempt, last_exception, calls, events, result, prompts, stdin, ncalls>>

\* the request succeeds: _make_request prints (if verbose) and returns the
\* stripped text, and the try body returns it
GeminiAgent_return ==
    \E raw \in Strings :
        /\ pc = "request"
        /\ self.cls = "GeminiAgent"
        /\ in_flight' = in_flight - 1
        /\ outcomes' = Append(outcomes, Ok(raw))
        /\ stdout' = VerbosePrint(stdout)
        /\ Finish(Returned(GeminiAgent_make_request(raw)))
        /\ UNCHANGED <<environ, self, ctor_cls, ctor_exc, entry, observation, retries, delay,
                       attempt, last_exception, calls, events, prompts, stdin, ncalls>>

\* GeminiAgent_except going straight on to the next attempt, without the pause
GeminiAgent_except_skips_sleep ==
    \E e \in BackendErrors :
        /\ pc = "request"
        /\ self.cls = "GeminiAgent"
        /\ in_flight' = in_flight - 1
        /\ outcomes' = Append(outcomes, Err(e))
        /\ last_exception' = e
        /\ stdout' = Append(stdout, "Attempt failed")
        /\ pc' = "loop"
        /\ UNCHANGED <<environ, self, ctor_cls, ctor_exc, entry, observation, retries, delay,
                       attempt, calls, events, result, prompts, stdin, ncalls>>

\* GeminiAgent_except sleeping after every failure, the last one included
GeminiAgent_except_always_sleeps ==
    \E e \in BackendErrors :
        /\ pc = "request"
        /\ self.cls = "GeminiAgent"
        /\ in_flight' = in_flight - 1
        /\ outcomes' = Append(outcomes, Err(e))
        /\ last_exception' = e
        /\ stdout' = Append(stdout, "Attempt failed")
        /\ events' = Append(events, Sleep(delay))
        /\ pc' = "sleep"
        /\ UNCHANGED <<environ, self, ctor_cls, ctor_exc, entry, observation, retries, delay,
                       attempt, calls, result, prompts, stdin, ncalls>>

\* the request fails: except Exception as e
GeminiAgent_except ==
    \E e \in BackendErrors :
        /\ pc = "request"
        /\ self.cls = "GeminiAgent"
        /\ in_flight' = in_flight - 1
        /\ outcomes' = Append(outcomes, Err(e))
        /\ last_exception' = e
        /\ stdout' = Append(stdout, "Attempt failed")
        /\ IF attempt < retries
           THEN /\ events' = Append(events, Sleep(delay))
                /\ pc' = "sleep"
           ELSE /\ pc' = "loop"
                /\ UNCHANGED events
        /\ UNCHANGED <<environ, self, ctor_cls, ctor_exc, entry, observation, retries, delay,
                       attempt, calls, result, prompts, stdin, ncalls>>

\* time.sleep(delay) returns
GeminiAgent_sleep ==
    /\ pc = "sleep"
    /\ self.cls = "GeminiAgent"
    /\ pc' = "loop"
    /\ UNCHANGED <<environ, self, ctor_cls, ctor_exc, callvars>>

----------------------------------------------------------------------------
(* OpenAIAgent *)

\* the value _make_request returns for the backend's raw text
OpenAIAgent_make_request(raw) == str_strip(raw)

OpenAIAgent_call ==
    \E o \in Observations :
        /\ BeginCall("OpenAIAgent", o, "__call__")
        /\ IF ~isinstance_str(o) THEN RejectObservation
           ELSE EnterRetryRequest(DefaultRetries, DefaultDelay)

\* _retry_request invoked with explicit retries and delay
OpenAIAgent_retry_request ==
    \E o \in StrObservations, n \in RetriesArgs, d \in DelayArgs :
        /\ BeginCall("OpenAIAgent", o, "_retry_request")
        /\ EnterRetryRequest(n, d)

\* for attempt in range(1, retries + 1): the next attempt issues its request;
\* the exhausted loop falls through to raise last_exception
OpenAIAgent_for ==
    /\ pc = "loop"
    /\ self.cls = "OpenAIAgent"
    /\ IF attempt < retries
       THEN /\ attempt' = attempt + 1
            /\ in_flight' = in_flight + 1
            /\ calls' = calls + 1
            /\ events' = Append(events, Invoke(attempt + 1))
            /\ pc' = "request"
            /\ UNCHANGED result
       ELSE /\ Finish(Raised(IF last_exception = PyNone THEN RaiseNoneTypeError
                             ELSE last_exception))
            /\ UNCHANGED <<attempt, in_flight, calls, events>>
    /\ UNCHANGED <<environ, self, ctor_cls, ctor_exc, entry, observation, retries, delay,
                   last_exception, outcomes, stdout, prompts, stdin, ncalls>>

\* the request succeeds: the try body returns the response
OpenAIAgent_return ==
    \E raw \in Strings :
        /\ pc = "request"
        /\ self.cls = "OpenAIAgent"
        /\ in_flight' = in_flight - 1
        /\ outcomes' = Append(outcomes, Ok(raw))
        /\ stdout' = VerbosePrint(stdout)
        /\ Finish(Returned(OpenAIAgent_make_request(raw)))
        /\ UNCHANGED <<environ, self, ctor_cls, ctor_exc, entry, observation, retries, delay,
                       attempt, last_exception, calls, events, prompts, stdin, ncalls>>

\* OpenAIAgent_except discarding the client handle after a failure
OpenAIAgent_except_drops_client ==
    \E e \in BackendErrors :
        /\ pc = "request"
        /\ self.cls = "OpenAIAgent"
        /\ in_flight' = in_flight - 1
        /\ outcomes' = Append(outcomes, Err(e))
        /\ last_exception' = e
        /\ stdout' = Append(stdout, "Attempt failed")
        /\ self' = [self EXCEPT !.client = "none"]
        /\ IF attempt < retries
           THEN /\ events' = Append(events, Sleep(delay))
                /\ pc' = "sleep"
           ELSE /\ pc' = "loop"
                /\ UNCHANGED events
        /\ UNCHANGED <<environ, ctor_cls, ctor_exc, entry, observation, retries, delay,
                       attempt, calls, result, prompts, stdin, ncalls>>

\* the request fails: except Exception as e
OpenAIAgent_except ==
    \E e \in BackendErrors :
        /\ pc = "request"
        /\ self.cls = "OpenAIAgent"
        /\ in_flight' = in_flight - 1
        /\ outcomes' = Append(outcomes, Err(e))
        /\ last_exception' = e
        /\ stdout' = Append(stdout, "Attempt failed")
        /\ IF attempt < retries
           THEN /\ events' = Append(events, Sleep(delay))
                /\ pc' = "sleep"
           ELSE /\ pc' = "loop"
                /\ UNCHANGED events
        /\ UNCHANGED <<environ, self, ctor_cls, ctor_exc, entry, observation, retries, delay,
                       attempt, calls, result, prompts, stdin, ncalls>>

\* time.sleep(delay) returns
OpenAIAgent_sleep ==
    /\ pc = "sleep"
    /\ self.cls = "OpenAIAgent"
    /\ pc' = "loop"
    /\ UNCHANGED <<environ, self, ctor_cls, ctor_exc, callvars>>

----------------------------------------------------------------------------
(* AnthropicAgent *)

\* the value _make_request returns for the backend's raw text
AnthropicAgent_make_request(raw) == str_strip(raw)

\* AnthropicAgent_call handing on an attempt limit and delay of the caller's
AnthropicAgent_call_configured ==
    \E o \in Observations, n \in RetriesArgs, d \in DelayArgs :
        /\ BeginCall("AnthropicAgent", o, "__call__")
        /\ IF ~isinstance_str(o) THEN RejectObservation
           ELSE EnterRetryRequest(n, d)

AnthropicAgent_call ==
    \E o \in Observations :
        /\ BeginCall("AnthropicAgent", o, "__call__")
        /\ IF ~isinstance_str(o) THEN RejectObservation
           ELSE EnterRetryRequest(DefaultRetries, DefaultDelay)

\* _retry_request invoked with explicit retries and delay
AnthropicAgent_retry_request ==
    \E o \in StrObservations, n \in RetriesArgs, d \in DelayArgs :
        /\ BeginCall("AnthropicAgent", o, "_retry_request")
        /\ EnterRetryRequest(n, d)

\* AnthropicAgent_for as a loop that tests the limit only after a first attempt
AnthropicAgent_for_at_least_once ==
    /\ pc = "loop"
    /\ self.cls = "AnthropicAgent"
    /\ IF attempt < retries \/ attempt = 0
       THEN /\ attempt' = attempt + 1
            /\ in_flight' = in_flight + 1
            /\ calls' = calls + 1
            /\ events' = Append(events, Invoke(attempt + 1))
            /\ pc' = "request"
            /\ UNCHANGED result
       ELSE /\ Finish(Raised(IF last_exception = PyNone THEN RaiseNoneTypeError
                             ELSE last_exception))
            /\ UNCHANGED <<attempt, in_flight, calls, events>>
    /\ UNCHANGED <<environ, self, ctor_cls, ctor_exc, entry, observation, retries, delay,
                   last_exception, outcomes, stdout, prompts, stdin, ncalls>>

\* for attempt in range(1, retries + 1): the next attempt issues its request;
\* the exhausted loop falls through to raise last_exception
AnthropicAgent_for ==
    /\ pc = "loop"
    /\ self.cls = "AnthropicAgent"
    /\ IF attempt < retries
       THEN /\ attempt' = attempt + 1
            /\ in_flight' = in_flight + 1
            /\ calls' = calls + 1
            /\ events' = Append(events, Invoke(attempt + 1))
            /\ pc' = "request"
            /\ UNCHANGED result
       ELSE /\ Finish(Raised(IF last_exception = PyNone THEN RaiseNoneTypeError
                             ELSE last_exception))
            /\ UNCHANGED <<attempt, in_flight, calls, events>>
    /\ UNCHANGED <<environ, self, ctor_cls, ctor_exc, entry, observation, retries, delay,
                   last_exception, outcomes, stdout, prompts, stdin, ncalls>>

\* the request succeeds: the try body returns the response
AnthropicAgent_return ==
    \E raw \in Strings :
        /\ pc = "request"
        /\ self.cls = "AnthropicAgent"
        /\ in_flight' = in_flight - 1
        /\ outcomes' = Append(outcomes, Ok(raw))
        /\ stdout' = VerbosePrint(stdout)
        /\ Finish(Returned(AnthropicAgent_make_request(raw)))
        /\ UNCHANGED <<environ, self, ctor_cls, ctor_exc, entry, observation, retries, delay,
                       attempt, last_exception, calls, events, prompts, stdin, ncalls>>

\* AnthropicAgent_except keeping the first failure instead of the latest
AnthropicAgent_except_keeps_first ==
    \E e \in BackendErrors :
        /\ pc = "request"
        /\ self.cls = "AnthropicAgent"
        /\ in_flight' = in_flight - 1
        /\ outcomes' = Append(outcomes, Err(e))
        /\ last_exception' = IF last_exception = PyNone THEN e ELSE last_exception
        /\ stdout' = Append(stdout, "Attempt failed")
        /\ IF attempt < retries
           THEN /\ events' = Append(events, Sleep(delay))
                /\ pc' = "sleep"
           ELSE /\ pc' = "loop"
                /\ UNCHANGED events
        /\ UNCHANGED <<environ, self, ctor_cls, ctor_exc, entry, observation, retries, delay,
                       attempt, calls, result, prompts, stdin, ncalls>>

\* the request fails: except Exception as e
AnthropicAgent_except ==
    \E e \in BackendErrors :
        /\ pc = "request"
        /\ self.cls = "AnthropicAgent"
        /\ in_flight' = in_flight - 1
        /\ outcomes' = Append(outcomes, Err(e))
        /\ last_exception' = e
        /\ stdout' = Append(stdout, "Attempt failed")
        /\ IF attempt < retries
           THEN /\ events' = Append(events, Sleep(delay))
                /\ pc' = "sleep"
           ELSE /\ pc' = "loop"
                /\ UNCHANGED events
        /\ UNCHANGED <<environ, self, ctor_cls, ctor_exc, entry, observation, retries, delay,
                       attempt, calls, result, prompts, stdin, ncalls>>

\* time.sleep(delay) returns
AnthropicAgent_sleep ==
    /\ pc = "sleep"
    /\ self.cls = "AnthropicAgent"
    /\ pc' = "loop"
    /\ UNCHANGED <<environ, self, ctor_cls, ctor_exc, callvars>>

----------------------------------------------------------------------------
(* HumanAgent *)

\* HumanAgent_action tidying the typed line
HumanAgent_action_stripped(text) == str_strip(builtin_input(text))

\* the action __call__ returns when the operator's keystrokes are text
HumanAgent_action(text) == builtin_input(text)

\* __call__ prints the separator and blocks in input(prompt with the observation)
HumanAgent_call ==
    \E o \in Observations :
        /\ BeginCall("HumanAgent", o, "__call__")
        /\ retries' = 0
        /\ delay' = 0
        /\ attempt' = 0
        /\ last_exception' = PyNone
        /\ in_flight' = 0
        /\ calls' = 0
        /\ events' = <<>>
        /\ result' = NoResult
        /\ stdout' = <<"+++ +++ +++">>
        /\ prompts' = 1
        /\ pc' = "input"

\* the operator types a line and presses Enter; __call__ returns what input() returns
HumanAgent_return ==
    \E line \in Strings :
        /\ pc = "input"
        /\ self.cls = "HumanAgent"
        /\ stdin' = line \o <<"\n">>
        /\ Finish(Returned(HumanAgent_action(stdin')))
        /\ UNCHANGED <<environ, self, ctor_cls, ctor_exc, entry, observation, retries,
                       delay, attempt, last_exception, in_flight, calls, events,
                       outcomes, stdout, prompts, ncalls>>

----------------------------------------------------------------------------
(* HFLocalAgent *)

\* f"An error occurred: {e}"
AnErrorOccurred(e) ==
    <<"A", "n", " ", "e", "r", "r", "o", "r", " ", "o", "c", "c", "u", "r", "r", "e", "d",
      ":", " ">> \o e.msg

\* the try body: system_prompt + "\n" + observation raises TypeError for a
\* non-string, before the pipeline is invoked, and the handler returns the message
HFLocalAgent_call ==
    \E o \in Observations :
        /\ BeginCall("HFLocalAgent", o, "__call__")
        /\ IF ~isinstance_str(o)
           THEN /\ retries' = 0
                /\ delay' = 0
                /\ attempt' = 0
                /\ last_exception' = PyNone
                /\ in_flight' = 0
                /\ calls' = 0
                /\ events' = <<>>
                /\ stdout' = <<>>
                /\ prompts' = 0
                /\ Finish(Returned(AnErrorOccurred(StrConcatTypeError)))
           ELSE IssueSingleRequest

HFLocalAgent_return ==
    \E raw \in Strings :
        /\ pc = "request"
        /\ self.cls = "HFLocalAgent"
        /\ in_flight' = in_flight - 1
        /\ outcomes' = Append(outcomes, Ok(raw))
        /\ Finish(Returned(str_strip(raw)))
        /\ UNCHANGED <<environ, self, ctor_cls, ctor_exc, entry, observation, retries, delay,
                       attempt, last_exception, calls, events, stdout, prompts, stdin, ncalls>>

\* HFLocalAgent_except letting the exception out instead of formatting it
HFLocalAgent_except_raises ==
    \E e \in BackendErrors :
        /\ pc = "request"
        /\ self.cls = "HFLocalAgent"
        /\ in_flight' = in_flight - 1
        /\ outcomes' = Append(outcomes, Err(e))
        /\ Finish(Raised(e))
        /\ UNCHANGED <<environ, self, ctor_cls, ctor_exc, entry, observation, retries, delay,
                       attempt, last_exception, calls, events, stdout, prompts, stdin, ncalls>>

HFLocalAgent_except ==
    \E e \in BackendErrors :
        /\ pc = "request"
        /\ self.cls = "HFLocalAgent"
        /\ in_flight' = in_flight - 1
        /\ outcomes' = Append(outcomes, Err(e))
        /\ Finish(Returned(AnErrorOccurred(e)))
        /\ UNCHANGED <<environ, self, ctor_cls, ctor_exc, entry, observation, retries, delay,
                       attempt, last_exception, calls, events, stdout, prompts, stdin, ncalls>>

----------------------------------------------------------------------------
(* CerebrasAgent *)

\* __call__ does not look at the observation's type: it builds the messages and
\* invokes client.chat.completions.create
CerebrasAgent_call ==
    \E o \in Observations :
        /\ BeginCall("CerebrasAgent", o, "__call__")
        /\ IssueSingleRequest

CerebrasAgent_return ==
    \E raw \in Strings :
        /\ pc = "request"
        /\ self.cls = "CerebrasAgent"
        /\ in_flight' = in_flight - 1
        /\ outcomes' = Append(outcomes, Ok(raw))
        /\ Finish(Returned(str_strip(raw)))
        /\ UNCHANGED <<environ, self, ctor_cls, ctor_exc, entry, observation, retries, delay,
                       attempt, last_exception, calls, events, stdout, prompts, stdin, ncalls>>

\* CerebrasAgent_except letting the exception out instead of formatting it
CerebrasAgent_except_raises ==
    \E e \in BackendErrors :
        /\ pc = "request"
        /\ self.cls = "CerebrasAgent"
        /\ in_flight' = in_flight - 1
        /\ outcomes' = Append(outcomes, Err(e))
        /\ Finish(Raised(e))
        /\ UNCHANGED <<environ, self, ctor_cls, ctor_exc, entry, observation, retries, delay,
                       attempt, last_exception, calls, events, stdout, prompts, stdin, ncalls>>

CerebrasAgent_except ==
    \E e \in BackendErrors :
        /\ pc = "request"
        /\ self.cls = "CerebrasAgent"
        /\ in_flight' = in_flight - 1
        /\ outcomes' = Append(outcomes, Err(e))
        /\ Finish(Returned(AnErrorOccurred(e)))
        /\ UNCHANGED <<environ, self, ctor_cls, ctor_exc, entry, observation, retries, delay,
                       attempt, last_exception, calls, events, stdout, prompts, stdin, ncalls>>

----------------------------------------------------------------------------
(* AWSBedrockAgent *)

\* f"ERROR: Can't invoke '{self.model_id}'. Reason: {e}"
CantInvoke(model_id, e) ==
    <<"E", "R", "R", "O", "R", ":", " ", "C", "a", "n", "'", "t", " ",
      "i", "n", "v", "o", "k", "e", " ", "'">> \o <<model_id>> \o
    <<"'", ".", " ", "R", "e", "a", "s", "o", "n", ":", " ">> \o e.msg

AWSBedrockAgent_call ==
    \E o \in Observations :
        /\ BeginCall("AWSBedrockAgent", o, "__call__")
        /\ IF ~isinstance_str(o) THEN RejectObservation ELSE IssueSingleRequest

\* _make_request: client.converse answers
AWSBedrockAgent_return ==
    \E raw \in Strings :
        /\ pc = "request"
        /\ self.cls = "AWSBedrockAgent"
        /\ in_flight' = in_flight - 1
        /\ outcomes' = Append(outcomes, Ok(raw))
        /\ stdout' = VerbosePrint(stdout)
        /\ Finish(Returned(str_strip(raw)))
        /\ UNCHANGED <<environ, self, ctor_cls, ctor_exc, entry, observation, retries, delay,
                       attempt, last_exception, calls, events, prompts, stdin, ncalls>>

\* _make_request: client.converse raises
AWSBedrockAgent_except ==
    \E e \in BackendErrors :
        /\ pc = "request"
        /\ self.cls = "AWSBedrockAgent"
        /\ in_flight' = in_flight - 1
        /\ outcomes' = Append(outcomes, Err(e))
        /\ Finish(Returned(CantInvoke(self.model_name, e)))
        /\ UNCHANGED <<environ, self, ctor_cls, ctor_exc, entry, observation, retries, delay,
                       attempt, last_exception, calls, events, stdout, prompts, stdin, ncalls>>

----------------------------------------------------------------------------
(* The program: a harness calling one agent repeatedly *)

Next ==
    \/ HumanAgent_call
    \/ HumanAgent_return
    \/ OpenRouterAgent_call
    \/ OpenRouterAgent_retry_request
    \/ OpenRouterAgent_for
    \/ OpenRouterAgent_return
    \/ OpenRouterAgent_except
    \/ OpenRouterAgent_sleep
    \/ GeminiAgent_call
    \/ GeminiAgent_retry_request
    \/ GeminiAgent_for
    \/ GeminiAgent_return
    \/ GeminiAgent_except
    \/ GeminiAgent_sleep
    \/ OpenAIAgent_call
    \/ OpenAIAgent_retry_request
    \/ OpenAIAgent_for
    \/ OpenAIAgent_return
    \/ OpenAIAgent_except
    \/ OpenAIAgent_sleep
    \/ HFLocalAgent_call
    \/ HFLocalAgent_return
    \/ HFLocalAgent_except
    \/ CerebrasAgent_call
    \/ CerebrasAgent_return
    \/ CerebrasAgent_except
    \/ AWSBedrockAgent_call
    \/ AWSBedrockAgent_return
    \/ AWSBedrockAgent_except
    \/ AnthropicAgent_call
    \/ AnthropicAgent_retry_request
    \/ AnthropicAgent_for
    \/ AnthropicAgent_return
    \/ AnthropicAgent_except
    \/ AnthropicAgent_sleep

Spec == Init /\ [][Next]_vars

\* the steps of a running _retry_request: the loop head, the answer to the
\* request in flight, the end of a pause
RetryStep ==
    \/ OpenRouterAgent_for \/ OpenRouterAgent_return \/ OpenRouterAgent_except
    \/ OpenRouterAgent_sleep
    \/ GeminiAgent_for \/ GeminiAgent_return \/ GeminiAgent_except \/ GeminiAgent_sleep
    \/ OpenAIAgent_for \/ OpenAIAgent_return \/ OpenAIAgent_except \/ OpenAIAgent_sleep
    \/ AnthropicAgent_for \/ AnthropicAgent_return \/ AnthropicAgent_except
    \/ AnthropicAgent_sleep

\* the interpreter keeps executing a running _retry_request, every request is
\* answered (by a text or by a failure) and every time.sleep returns
SpecLive == Init /\ [][Next]_vars /\ WF_vars(RetryStep)

----------------------------------------------------------------------------
(* Properties *)

\* a call of a retrying agent that reached _retry_request
InRetryRequest ==
    /\ self.cls \in RetryingAgents
    /\ entry # "none"
    /\ isinstance_str(observation)

AllFailed(outs) == \A i \in 1..Len(outs) : ~outs[i].ok
Failures(outs) == Cardinality({i \in 1..Len(outs) : ~outs[i].ok})
Invocations(evs) == Cardinality({i \in 1..Len(evs) : evs[i].ev = "invoke"})
Pauses(evs) == Cardinality({i \in 1..Len(evs) : evs[i].ev = "sleep"})

\* C1: in a retrying agent with attempt limit N >= 1, as soon as attempt k
\* succeeds (attempts 1..k-1 having failed) the call is over: it has returned the
\* result of attempt k, the backend was invoked exactly k times, and no further
\* attempt is made.
C1_SuccessEndsTheCall ==
    (InRetryRequest /\ retries >= 1) =>
        \A k \in 1..Len(outcomes) :
            outcomes[k].ok =>
                /\ k = Len(outcomes)
                /\ k <= retries
                /\ \A i \in 1..(k - 1) : ~outcomes[i].ok
                /\ pc = "done"
                /\ result = Returned(str_strip(outcomes[k].raw))
                /\ calls = k
                /\ Invocations(events) = k
                /\ in_flight = 0

\* retry count 3, the backend fails twice and then yields "d": "d" is returned
\* after exactly 3 invocations
C1_Witness ==
    /\ InRetryRequest
    /\ retries = 3
    /\ Len(outcomes) = 3
    /\ ~outcomes[1].ok
    /\ ~outcomes[2].ok
    /\ outcomes[3] = Ok(<<"d">>)
    /\ pc = "done"
    /\ result = Returned(<<"d">>)
    /\ calls = 3

\* C2: in a retrying agent with attempt limit N >= 1, the backend is never
\* invoked more than N times; when all N attempts have failed no further attempt
\* is made and the call raises the exception of the N-th attempt; and a call
\* that ends without a successful attempt ends only after N failed attempts.
C2_ExhaustedRaisesLast ==
    (InRetryRequest /\ retries >= 1) =>
        /\ calls <= retries
        /\ (Len(outcomes) = retries /\ AllFailed(outcomes)) =>
                /\ pc \in {"loop", "done"}
                /\ calls = retries
                /\ Invocations(events) = retries
                /\ pc = "done" => result = Raised(outcomes[retries].exc)
        /\ (pc = "done" /\ AllFailed(outcomes)) =>
                /\ Len(outcomes) = retries
                /\ result.kind = "raise"

\* retry count 2, the backend fails with "" and then with "r": the call raises
\* the second failure after exactly 2 invocations
C2_Witness ==
    /\ InRetryRequest
    /\ retries = 2
    /\ outcomes = <<Err([type |-> "BackendError", msg |-> <<>>]),
                    Err([type |-> "BackendError", msg |-> <<"r">>])>>
    /\ pc = "done"
    /\ result = Raised([type |-> "BackendError", msg |-> <<"r">>])
    /\ calls = 2

\* C3: for all eight agents, a call with a non-string observation raises the
\* invalid-input error (ValueError) before any backend invocation or operator
\* prompt.
C3_NonStringRaisesFirst ==
    (entry = "__call__" /\ ~isinstance_str(observation)) =>
        /\ pc = "done"
        /\ result = Raised(ObservationValueError)
        /\ calls = 0
        /\ events = <<>>
        /\ prompts = 0

NoEdgeWhitespace(s) == s = <<>> \/ (s[1] \notin Whitespace /\ s[Len(s)] \notin Whitespace)

\* v is raw with nothing but whitespace removed from its two ends
IsSurfaceTrimOf(v, raw) ==
    \E i \in 0..Len(raw) :
        /\ i + Len(v) <= Len(raw)
        /\ SubSeq(raw, i + 1, i + Len(v)) = v
        /\ \A q \in 1..i : raw[q] \in Whitespace
        /\ \A q \in (i + Len(v) + 1)..Len(raw) : raw[q] \in Whitespace

\* C4 as claimed: every string an agent's call returns (backend output, error
\* sentinel, human-typed line) has no leading or trailing whitespace.
C4_EveryReturnTrimmed ==
    (pc = "done" /\ result.kind = "return") => NoEdgeWhitespace(result.value)

\* C4 as amended: every action returned from a successful backend output has no
\* leading or trailing whitespace and is the raw output with only whitespace
\* removed from its two ends.
C4_BackendOutputTrimmed ==
    (pc = "done" /\ outcomes # <<>> /\ outcomes[Len(outcomes)].ok) =>
        /\ result.kind = "return"
        /\ NoEdgeWhitespace(result.value)
        /\ IsSurfaceTrimOf(result.value, outcomes[Len(outcomes)].raw)

C4_Witness ==
    /\ pc = "done"
    /\ self.cls = "OpenRouterAgent"
    /\ outcomes # <<>>
    /\ outcomes[Len(outcomes)] = Ok(<<" ", "d", " ">>)
    /\ result = Returned(<<"d">>)

\* the constructor ran for a class that needs a credential while the variable
\* holding it was unset (and no key was handed to the constructor directly)
CredentialAbsent ==
    /\ ctor_cls \in DOMAIN CredentialVar
    /\ CredentialVar[ctor_cls] \notin environ
    /\ ~(ctor_cls = "OpenAIAgent" /\ self.api_key # NoKey)

\* C5: construction of a credential-requiring agent while its credential
\* variable is absent fails with a configuration error, produces no agent
\* object and makes no backend invocation.
C5_MissingCredentialFails ==
    (pc # "new" /\ CredentialAbsent) =>
        /\ pc = "ctor_failed"
        /\ self = NoObject
        /\ ctor_exc.type \in {"ValueError", "ImportError", "SDKError"}
        /\ calls = 0

IsSuffix(m, s) == Len(m) <= Len(s) /\ SubSeq(s, Len(s) - Len(m) + 1, Len(s)) = m

\* C6: CerebrasAgent and AWSBedrockAgent, called with a string observation,
\* invoke the backend exactly once and never pause or retry; when that attempt
\* fails the call does not raise but returns a string that wraps the failure's
\* message in a description.
C6_SingleShotErrorString ==
    (self.cls \in {"CerebrasAgent", "AWSBedrockAgent"} /\ entry = "__call__"
        /\ isinstance_str(observation)) =>
        /\ calls = 1
        /\ events = <<Invoke(1)>>
        /\ pc \in {"request", "done"}
        /\ pc = "request" => (in_flight = 1 /\ outcomes = <<>>)
        /\ pc = "done" =>
            /\ Len(outcomes) = 1
            /\ in_flight = 0
            /\ result.kind = "return"
            /\ ~outcomes[1].ok =>
                /\ IsSuffix(outcomes[1].exc.msg, result.value)
                /\ Len(result.value) > Len(outcomes[1].exc.msg)

C6_Witness ==
    /\ self.cls = "CerebrasAgent"
    /\ isinstance_str(observation)
    /\ pc = "done"
    /\ outcomes = <<Err([type |-> "BackendError", msg |-> <<"r">>])>>
    /\ result = Returned(AnErrorOccurred([type |-> "BackendError", msg |-> <<"r">>]))
    /\ calls = 1

\* the retry policy as a function of the attempt limit, the delay and the
\* backend's answers alone: the invocations and pauses it makes ...
RECURSIVE PolicyEvents(_, _, _, _)
PolicyEvents(n, d, outs, k) ==
    IF outs = <<>> THEN <<>>
    ELSE <<Invoke(k)>>
         \o (IF ~Head(outs).ok /\ k < n THEN <<Sleep(d)>> ELSE <<>>)
         \o PolicyEvents(n, d, Tail(outs), k + 1)

\* ... the way it ends ...
PolicyOutcome(outs) ==
    IF outs = <<>> THEN Raised(RaiseNoneTypeError)
    ELSE IF outs[Len(outs)].ok THEN Returned(str_strip(outs[Len(outs)].raw))
    ELSE Raised(outs[Len(outs)].exc)

\* ... and the answers it consumes before it ends
PolicyComplete(n, outs) ==
    \/ outs # <<>> /\ outs[Len(outs)].ok /\ Len(outs) <= n
          /\ \A i \in 1..(Len(outs) - 1) : ~outs[i].ok
    \/ AllFailed(outs) /\ Len(outs) = (IF n > 0 THEN n ELSE 0)

\* C7: the four retrying agents follow one and the same policy: whichever the
\* class, the invocations and pauses a finished call made and its outcome are
\* those the policy above gives for the call's attempt limit, delay and backend
\* answers, so two agents given the same limit, delay and answers agree.
C7_SamePolicyEveryBackend ==
    (InRetryRequest /\ pc = "done") =>
        /\ PolicyComplete(retries, outcomes)
        /\ events = PolicyEvents(retries, delay, outcomes, 1)
        /\ result = PolicyOutcome(outcomes)

\* GeminiAgent, whose _retry_request is written differently, after a failure,
\* a pause and a success
C7_Witness ==
    /\ self.cls = "GeminiAgent"
    /\ entry = "_retry_request"
    /\ pc = "done"
    /\ retries = 2
    /\ Len(outcomes) = 2
    /\ ~outcomes[1].ok
    /\ outcomes[2].ok
    /\ events = <<Invoke(1), Sleep(delay), Invoke(2)>>

\* C8: HumanAgent makes no backend invocation, no pause and no retry, prompts
\* the operator once, and returns exactly the line the operator typed.
C8_HumanReturnsLineVerbatim ==
    (self.cls = "HumanAgent" /\ entry # "none") =>
        /\ calls = 0
        /\ events = <<>>
        /\ outcomes = <<>>
        /\ in_flight = 0
        /\ prompts = 1
        /\ pc \in {"input", "done"}
        /\ pc = "done" =>
            /\ result.kind = "return"
            /\ stdin = result.value \o <<"\n">>

\* the operator typed a line with whitespace at both ends
C8_Witness ==
    /\ self.cls = "HumanAgent"
    /\ pc = "done"
    /\ stdin = <<" ", "d", " ", "\n">>
    /\ result = Returned(<<" ", "d", " ">>)

\* C9: no step of any call changes the agent object (model, system prompt,
\* verbosity, client handle), and every call starts from fresh locals: nothing
\* of an earlier call's attempts, failures or answers is carried into it.
C9_CallsLeaveTheAgentAlone ==
    [][/\ self' = self
       /\ ncalls' # ncalls =>
            /\ attempt' = 0
            /\ last_exception' = PyNone
            /\ outcomes' = <<>>
            /\ stdin' = <<>>
            /\ calls' = Len(events')
            /\ calls' <= 1]_vars

\* a second call has ended in an exception after a first call
C9_Witness ==
    /\ ncalls = 2
    /\ pc = "done"
    /\ self.verbose
    /\ self.system_prompt = "custom"
    /\ result.kind = "raise"
    /\ Failures(outcomes) = 3

Min(a, b) == IF a < b THEN a ELSE b

\* where the pauses of _retry_request are: every pause lasts exactly delay and
\* directly follows a failed attempt k < retries, attempt k + 1 comes directly
\* after it, and every failed attempt k < retries is directly followed by a pause
PausesOnlyBetweenAttempts ==
    /\ \A i \in 1..Len(events) :
          events[i].ev = "sleep" =>
              /\ events[i].arg = delay
              /\ i > 1
              /\ events[i - 1].ev = "invoke"
              /\ events[i - 1].arg <= Len(outcomes)
              /\ ~outcomes[events[i - 1].arg].ok
              /\ events[i - 1].arg < retries
              /\ i < Len(events) => events[i + 1] = Invoke(events[i - 1].arg + 1)
              /\ i = Len(events) => pc \in {"sleep", "loop"}
    /\ \A k \in 1..Len(outcomes) :
          (~outcomes[k].ok /\ k < retries) =>
              \E i \in 1..(Len(events) - 1) :
                  events[i] = Invoke(k) /\ events[i + 1] = Sleep(delay)

\* C10 as claimed: the pauses are placed as above and, for every attempt limit
\* N, a call that ends after f failures has paused min(f, N-1) times.
C10_PausesMinFNminus1 ==
    InRetryRequest =>
        /\ PausesOnlyBetweenAttempts
        /\ pc = "done" => Pauses(events) = Min(Failures(outcomes), retries - 1)

\* C10 as amended: the pauses are placed as above and a call that ends after f
\* failures has paused min(f, N-1) times when N >= 1, and not at all when N <= 0.
C10_PausesBetweenAttempts ==
    InRetryRequest =>
        /\ PausesOnlyBetweenAttempts
        /\ pc = "done" =>
              Pauses(events) = (IF retries >= 1
                                THEN Min(Failures(outcomes), retries - 1) ELSE 0)

\* three failures under attempt limit 3: two pauses of the delay, none after the last
C10_Witness ==
    /\ InRetryRequest
    /\ self.cls = "OpenRouterAgent"
    /\ retries = 3
    /\ delay = 1
    /\ pc = "done"
    /\ Failures(outcomes) = 3
    /\ events = <<Invoke(1), Sleep(1), Invoke(2), Sleep(1), Invoke(3)>>

ValidatingAgents == RetryingAgents \cup {"AWSBedrockAgent"}

\* C11: in the five agents that validate their input, a call with a non-string
\* observation is over at once: it has raised the invalid-input ValueError
\* without entering the retry loop, without any backend invocation and without
\* any pause.
C11_InvalidInputNeverRetried ==
    (self.cls \in ValidatingAgents /\ entry = "__call__" /\ ~isinstance_str(observation)) =>
        /\ pc = "done"
        /\ result = Raised(ObservationValueError)
        /\ attempt = 0
        /\ calls = 0
        /\ in_flight = 0
        /\ events = <<>>
        /\ outcomes = <<>>
        /\ last_exception = PyNone

\* a retrying agent that retried in its first call rejects a non-string in its second
C11_Witness ==
    /\ self.cls = "GeminiAgent"
    /\ ncalls = 2
    /\ entry = "__call__"
    /\ ~isinstance_str(observation)
    /\ pc = "done"
    /\ result = Raised(ObservationValueError)

\* C12: a __call__ of a retrying agent with a string observation runs
\* _retry_request with attempt limit 3 and delay 5, whatever the agent's
\* configuration: one backend invocation per attempt, at most 3 invocations and
\* at most 2 pauses (each of 5), and at least 1 invocation once the call is over.
C12_CallUsesDefaultPolicy ==
    (InRetryRequest /\ entry = "__call__") =>
        /\ retries = 3
        /\ delay = 5
        /\ calls = attempt
        /\ Invocations(events) = attempt
        /\ calls <= 3
        /\ Pauses(events) <= 2
        /\ \A i \in 1..Len(events) : events[i].ev = "sleep" => events[i].arg = 5
        /\ pc = "done" => calls >= 1

\* a verbose agent with a custom system prompt exhausts the three attempts
C12_Witness ==
    /\ InRetryRequest
    /\ entry = "__call__"
    /\ self.cls = "AnthropicAgent"
    /\ self.verbose
    /\ self.system_prompt = "custom"
    /\ pc = "done"
    /\ calls = 3
    /\ events = <<Invoke(1), Sleep(5), Invoke(2), Sleep(5), Invoke(3)>>

\* C13: within a call of a retrying agent at most one backend request is in
\* flight, and only while the call waits for it; an attempt starts only from the
\* loop head of the same call, with no request in flight, no result yet, every
\* earlier attempt answered by a failure and, if there was one, the pause after
\* it made; it is attempt number attempt + 1; and the loop head is re-entered
\* only when a pause has elapsed or the last attempt has failed.
C13_AttemptsStrictlyOrdered ==
    /\ [](self.cls \in RetryingAgents =>
            /\ in_flight \in {0, 1}
            /\ in_flight = 1 <=> pc = "request"
            /\ pc = "sleep" => (events # <<>> /\ events[Len(events)] = Sleep(delay))
            /\ pc = "done" => in_flight = 0)
    /\ [][(self.cls \in RetryingAgents /\ pc' = "request" /\ pc # "request") =>
            /\ pc = "loop"
            /\ ncalls' = ncalls
            /\ in_flight = 0
            /\ result = NoResult
            /\ result' = NoResult
            /\ Len(outcomes) = attempt
            /\ AllFailed(outcomes)
            /\ attempt >= 1 => events[Len(events)] = Sleep(delay)
            /\ attempt' = attempt + 1
            /\ attempt' <= retries
            /\ events' = Append(events, Invoke(attempt'))]_vars
    /\ [][(self.cls \in RetryingAgents /\ pc' = "loop" /\ pc # "loop" /\ ncalls' = ncalls) =>
            \/ pc = "sleep" /\ events' = events
            \/ pc = "request" /\ attempt = retries /\ ~outcomes'[Len(outcomes')].ok]_vars

\* the second attempt's request is in flight, after a failure and a pause
C13_Witness ==
    /\ self.cls = "GeminiAgent"
    /\ pc = "request"
    /\ in_flight = 1
    /\ attempt = 2
    /\ Len(outcomes) = 1
    /\ events = <<Invoke(1), Sleep(delay), Invoke(2)>>

\* C14: provided every backend request is answered, a call of a retrying agent
\* that is running ends, in a returned action or a raised exception, and it
\* never makes more than N attempts (none when N <= 0).  (A new call starts only
\* once the running one is done, so the done state reached is the running call's.)
C14_RetryCallTerminates ==
    /\ [](InRetryRequest => calls <= (IF retries > 0 THEN retries ELSE 0))
    /\ (InRetryRequest /\ pc # "done")
          ~> (pc = "done" /\ result.kind \in {"return", "raise"})

\* a call whose three attempts are all spent is still running, at the loop head
C14_Witness ==
    /\ InRetryRequest
    /\ self.cls = "OpenRouterAgent"
    /\ retries = 3
    /\ pc = "loop"
    /\ attempt = 3
    /\ Failures(outcomes) = 3

\* C15: _retry_request given an attempt limit N <= 0 makes no backend
\* invocation and no pause and returns no value: it ends by raising, and what it
\* raises is the TypeError of raise None (last_exception was never set), not an
\* exception of the backend.
C15_NoAttemptsStillRaises ==
    (InRetryRequest /\ retries <= 0) =>
        /\ pc \in {"loop", "done"}
        /\ attempt = 0
        /\ calls = 0
        /\ in_flight = 0
        /\ events = <<>>
        /\ outcomes = <<>>
        /\ last_exception = PyNone
        /\ pc = "loop" => result = NoResult
        /\ pc = "done" =>
            /\ result = Raised(RaiseNoneTypeError)
            /\ result.exc \notin BackendErrors

C15_Witness ==
    /\ InRetryRequest
    /\ self.cls = "AnthropicAgent"
    /\ retries = 0
    /\ pc = "done"
    /\ result = Raised(RaiseNoneTypeError)
    /\ calls = 0

\* what C16 says of every call of HFLocalAgent whose observation satisfies obsOk:
\* the pipeline is invoked exactly once, there is no pause and no retry, the call
\* does not raise, and a pipeline failure e is returned as "An error occurred: e"
HFLocalSingleShot(obsOk) ==
    (self.cls = "HFLocalAgent" /\ entry = "__call__" /\ obsOk) =>
        /\ calls = 1
        /\ events = <<Invoke(1)>>
        /\ pc \in {"request", "done"}
        /\ pc = "request" => (in_flight = 1 /\ outcomes = <<>>)
        /\ pc = "done" =>
            /\ Len(outcomes) = 1
            /\ in_flight = 0
            /\ result.kind = "return"
            /\ ~outcomes[1].ok => result = Returned(AnErrorOccurred(outcomes[1].exc))

VerboseAgents == RetryingAgents \cup {"AWSBedrockAgent"}

\* what a finished call does as a function of the class, the model, the
\* observation, the attempt limit, the delay and the backend's answers, and of
\* nothing else: self.verbose is not an argument
QuietRun(cls, model_id, obs, n, d, outs) ==
    IF ~isinstance_str(obs)
    THEN [events |-> <<>>, result |-> Raised(ObservationValueError)]
    ELSE IF cls = "AWSBedrockAgent"
    THEN [events |-> <<Invoke(1)>>,
          result |-> IF outs[1].ok THEN Returned(str_strip(outs[1].raw))
                     ELSE Returned(CantInvoke(model_id, outs[1].exc))]
    ELSE [events |-> PolicyEvents(n, d, outs, 1), result |-> PolicyOutcome(outs)]

\* the lines the verbose flag adds to the standard output
VerboseLines(out) ==
    Cardinality({i \in 1..Len(out) : out[i] = "Observation/Response"})

\* C17: the verbose flag is observation-only: the invocations, the pauses and
\* the returned value or raised error of a finished call are determined by the
\* observation and the backend's answers alone, so two agents that differ only
\* in verbose agree on them; the flag decides only whether a successful call
\* prints the observation and the response.
C17_VerboseOnlyPrints ==
    (self.cls \in VerboseAgents /\ entry # "none" /\ pc = "done") =>
        LET quiet == QuietRun(self.cls, self.model_name, observation,
                              retries, delay, outcomes) IN
        /\ events = quiet.events
        /\ calls = Invocations(quiet.events)
        /\ Pauses(events) = Pauses(quiet.events)
        /\ result = quiet.result
        /\ VerboseLines(stdout) =
              (IF self.verbose /\ outcomes # <<>> /\ outcomes[Len(outcomes)].ok
               THEN 1 ELSE 0)

\* a verbose GeminiAgent printed the response of its second attempt, whose
\* text had whitespace around it
C17_Witness ==
    /\ self.cls = "GeminiAgent"
    /\ self.verbose
    /\ pc = "done"
    /\ Len(outcomes) = 2
    /\ ~outcomes[1].ok
    /\ outcomes[2] = Ok(<<" ", "d", " ">>)
    /\ result = Returned(<<"d">>)
    /\ VerboseLines(stdout) = 1
    /\ Pauses(events) = 1

====
